---- MODULE Spec2Model ----
(***************************************************************************)
(* Media ingestion and retrieval of hoth-server: ImageService              *)
(* (src/src/service/image.rs) behind the upload routes of                  *)
(* src/src/server/http.rs.                                                 *)
(*                                                                         *)
(* One upload request is one task running from_part and then save; the     *)
(* images table is the only shared state.  Byte buffers are sequences of   *)
(* chunks, a chunk carrying its byte length and what the image codec       *)
(* reads from it, so that lengths up to the transport cap and dimensions   *)
(* beyond 16 bits keep their real values.                                  *)
(***************************************************************************)
EXTENDS Integers, Sequences, FiniteSets, TLC

VARIABLES
    pc,         \* per upload: the stage the request is in
    stream,     \* per upload: the multipart field's stream: open, done, error
    mime,       \* from_part local `mime`
    bytes,      \* from_part local `bytes` (part_bytes's accumulator)
    size,       \* from_part local `size`
    height,     \* from_part local `height`
    width,      \* from_part local `width`
    filename,   \* from_part local `filename`
    img,        \* the Image from_part returned, held by the caller for save
    outcome,    \* per upload: what the request ended with
    images,     \* the rows of the images table
    named,      \* the calls of make_filename made so far, in call order
    resp,       \* the answer to the latest lookup (download / get_info)
    serverUrl   \* the configured server base address

vars == <<pc, stream, mime, bytes, size, height, width, filename, img,
          outcome, images, named, resp, serverUrl>>

locals == <<mime, bytes, size, height, width, filename, img>>

----------------------------------------------------------------------------
(* Bounds of the model *)

NumUploads == 2
MaxChunks == 2
NumTokens == 3
MaxTime == 2
HashSpace == 4

(* Program constants *)

MAX_FILE_SIZE == 1000000
I16_MODULUS == 65536
I32_MAX == 2147483647

Uploads == 1..NumUploads
Tokens == 1..NumTokens
Timestamps == 0..MaxTime

----------------------------------------------------------------------------
(* Inputs *)

\* What a multipart field's stream can deliver.  `fmt`, `w`, `h` are what the
\* codec reads from a buffer that starts with the chunk; `len` is its length.
PngChunk == [fmt |-> "png", w |-> 100, h |-> 50, len |-> 5000]
JpegChunk == [fmt |-> "jpeg", w |-> 40000, h |-> 3, len |-> 1000000]
JunkChunk == [fmt |-> "junk", w |-> 0, h |-> 0, len |-> 2500]
Chunks == {PngChunk, JpegChunk, JunkChunk}

NoContentType == "none"
SupportedTypes == {"image/jpeg", "image/png"}
ContentTypes == SupportedTypes \cup {"image/gif"}

ServerUrls == {"none", "http://hoth/"}

OwnerOf(u) == 100 + u

----------------------------------------------------------------------------
(* Results *)

Ok(v) == [kind |-> "Ok", val |-> v]
Err(e) == [kind |-> "Err", err |-> e]
Panic == [kind |-> "Panic"]
Pending == [kind |-> "Pending"]
Dropped == [kind |-> "Dropped"]

NoImage == [none |-> TRUE]
NoResp == [op |-> "none"]

----------------------------------------------------------------------------
(* Integer conversions *)

as_i16(n) ==
    LET m == n % I16_MODULUS
    IN  IF m >= I16_MODULUS \div 2 THEN m - I16_MODULUS ELSE m

as_i32_truncated(n) ==
    LET m == n % I16_MODULUS
    IN  IF m >= I16_MODULUS \div 2 THEN m - I16_MODULUS ELSE m

\* usize as i32 keeps the low 32 bits: n up to I32_MAX is kept, and n from
\* 2^31 to 2^32 - 1 becomes n - 2^32.
as_i32(n) ==
    IF n <= I32_MAX THEN n ELSE ((n - I32_MAX) - 1) - I32_MAX - 1

----------------------------------------------------------------------------
(* Ingestion Reader *)

RECURSIVE BytesLen(_)
BytesLen(b) == IF b = <<>> THEN 0 ELSE Head(b).len + BytesLen(Tail(b))

\* vec.put(data): the fold step of part_bytes
put(vec, data) == Append(vec, data)

\* The match that ends part_bytes.  `folded` is try_fold's result: the error
\* closure wraps the AppError in Err(..), and the Err arm unwraps that value,
\* which is an Err: the unwrap panics.
part_bytes(folded) ==
    IF folded.kind = "Ok" THEN Ok(folded.val) ELSE Panic

----------------------------------------------------------------------------
(* Format Validator *)

\* image::load_from_memory: the codec's verdict on a buffer
load_from_memory(b) ==
    IF b = <<>> \/ Head(b).fmt = "junk"
    THEN Err("DecodeError")
    ELSE Ok([width |-> Head(b).w, height |-> Head(b).h])

\* GenericImageView::dimensions: (width, height)
dimensions(decoded) == <<decoded.width, decoded.height>>

\* let (height, width) = img.dimensions();
height_width(decoded) ==
    LET d == dimensions(decoded)
    IN  [height |-> d[1], width |-> d[2]]

----------------------------------------------------------------------------
(* Identifier Synthesizer *)

extension_from_mime_gif(m) ==
    CASE m = "image/jpeg" -> Ok("jpeg")
      [] m = "image/png" -> Ok("png")
      [] m = "image/gif" -> Ok("gif")
      [] OTHER -> Err("UnsupportedImage")

extension_from_mime(m) ==
    CASE m = "image/jpeg" -> Ok("jpeg")
      [] m = "image/png" -> Ok("png")
      [] OTHER -> Err("UnsupportedImage")

ExtCode(ext) == IF ext = "jpeg" THEN 1 ELSE IF ext = "png" THEN 2 ELSE 3

\* format!("{}_{}_{}_{}", uuid, size, file_extension, timestamp)
temporal_name(token, sz, ext, timestamp) == <<token, sz, ext, timestamp>>

\* DefaultHasher over the seed string: a fixed function from seeds into a
\* range smaller than the set of seeds.
Hash(seed) ==
    (31 * seed[1] + seed[2] + 7 * ExtCode(seed[3]) + 17 * seed[4]) % HashSpace

\* format!("{}.{}", state.finish(), file_extension)
format_filename(h, ext) == ToString(h) \o "." \o ext

make_filename_by_content(sz, m, token, timestamp) ==
    LET e == extension_from_mime(m)
    IN  IF e.kind = "Err" THEN e
        ELSE Ok(format_filename(Hash(temporal_name(0, sz, e.val, 0)), e.val))

make_filename(sz, m, token, timestamp) ==
    LET e == extension_from_mime(m)
    IN  IF e.kind = "Err" THEN e
        ELSE Ok(format_filename(Hash(temporal_name(token, sz, e.val, timestamp)),
                                e.val))

----------------------------------------------------------------------------
(* URL Resolver *)

create_server_url(base, path) ==
    IF base = "none" THEN Err("ConfigError") ELSE Ok(base \o path)

----------------------------------------------------------------------------
(* The Image that from_part returns *)

ImageFields == {"id", "url", "filename", "image", "size", "mime", "height", "width"}

Image(u, link) ==
    [id |-> 0, url |-> link, filename |-> filename[u], image |-> bytes[u],
     size |-> size[u], mime |-> mime[u],
     height |-> as_i16(height[u]), width |-> as_i16(width[u])]

----------------------------------------------------------------------------
(* Persistence Gateway *)

ImageResourceFields ==
    {"id", "owner_id", "height", "width", "mime", "filename", "url", "size"}

GetInfoColumns == {"height", "width", "mime", "filename", "size", "owner_id"}

\* The id the storage engine assigns to a new row
NewId(table) == Cardinality(table) + 1

\* The uniqueness constraint on images.filename
UniqueViolation(table, name) == \E r \in table : r.filename = name

\* #[derive(FromRow)]: every field of the struct is read from the row by name
from_row(row, fields) ==
    IF fields \subseteq DOMAIN row
    THEN Ok([f \in fields |-> row[f]])
    ELSE Err("ColumnNotFound")

\* fetch_one: the first row of the result set, read into the target struct
fetch_one(rows, fields) ==
    IF rows = {} THEN Err("RowNotFound")
    ELSE from_row(CHOOSE r \in rows : TRUE, fields)

Project(row, columns) == [c \in columns |-> row[c]]

InsertedRow(table, image, owner_id) ==
    [id |-> NewId(table), owner_id |-> owner_id, height |-> image.height,
     width |-> image.width, mime |-> image.mime, filename |-> image.filename,
     url |-> image.url, size |-> image.size, image |-> image.image]

\* INSERT ... RETURNING *: the new table and the returned Image
save(table, image, owner_id) ==
    IF UniqueViolation(table, image.filename)
    THEN [table |-> table, res |-> Err("PersistenceError")]
    ELSE LET row == InsertedRow(table, image, owner_id)
         IN  [table |-> table \cup {row}, res |-> fetch_one({row}, ImageFields)]

download_by_url(table, name) ==
    fetch_one({r \in table : r.url = name}, ImageFields)

\* SELECT * FROM images WHERE filename = $1
download(table, name) ==
    fetch_one({r \in table : r.filename = name}, ImageFields)

\* SELECT height, width, mime, filename, size, owner_id ... WHERE id = $1
get_info(table, id) ==
    fetch_one({Project(r, GetInfoColumns) : r \in {x \in table : x.id = id}},
              ImageResourceFields)

----------------------------------------------------------------------------
(* The upload request *)

Stages == {"Reading", "Validating", "Naming", "ResolvingUrl", "Persisting"}
Terminal == {"Committed", "Failed", "Panicked"}

Init ==
    /\ pc = [u \in Uploads |-> "Start"]
    /\ stream = [u \in Uploads |-> "open"]
    /\ mime = [u \in Uploads |-> ""]
    /\ bytes = [u \in Uploads |-> <<>>]
    /\ size = [u \in Uploads |-> 0]
    /\ height = [u \in Uploads |-> 0]
    /\ width = [u \in Uploads |-> 0]
    /\ filename = [u \in Uploads |-> ""]
    /\ img = [u \in Uploads |-> NoImage]
    /\ outcome = [u \in Uploads |-> Pending]
    /\ images = {}
    /\ named = <<>>
    /\ resp = NoResp
    /\ serverUrl \in ServerUrls

\* The request ends: its locals are dropped, its result is what remains.
End(u, state, result) ==
    /\ pc' = [pc EXCEPT ![u] = state]
    /\ outcome' = [outcome EXCEPT ![u] = result]
    /\ mime' = [mime EXCEPT ![u] = ""]
    /\ bytes' = [bytes EXCEPT ![u] = <<>>]
    /\ size' = [size EXCEPT ![u] = 0]
    /\ height' = [height EXCEPT ![u] = 0]
    /\ width' = [width EXCEPT ![u] = 0]
    /\ filename' = [filename EXCEPT ![u] = ""]
    /\ img' = [img EXCEPT ![u] = NoImage]

EndOf(result) ==
    IF result.kind = "Panic" THEN "Panicked" ELSE "Failed"

\* get_content_type: content_type().unwrap()
Begin(u, types) ==
    /\ pc[u] = "Start"
    /\ \E ct \in types \cup {NoContentType} :
          IF ct = NoContentType
          THEN /\ End(u, "Panicked", Panic)
               /\ UNCHANGED <<stream, images, named, resp, serverUrl>>
          ELSE /\ pc' = [pc EXCEPT ![u] = "Reading"]
               /\ mime' = [mime EXCEPT ![u] = ct]
               /\ UNCHANGED <<stream, bytes, size, height, width, filename, img,
                              outcome, images, named, resp, serverUrl>>

\* part_bytes: the stream yields a chunk.  The multipart filter admits no
\* request longer than MAX_FILE_SIZE.
ReadChunk(u, chunks) ==
    /\ pc[u] = "Reading"
    /\ Len(bytes[u]) < MaxChunks
    /\ \E data \in chunks :
          /\ data.len <= MAX_FILE_SIZE - BytesLen(bytes[u])
          /\ bytes' = [bytes EXCEPT ![u] = put(bytes[u], data)]
    /\ UNCHANGED <<pc, stream, mime, size, height, width, filename, img,
                   outcome, images, named, resp, serverUrl>>

\* part_bytes: the stream yields a transport error
ReadFail(u) ==
    /\ pc[u] = "Reading"
    /\ stream' = [stream EXCEPT ![u] = "error"]
    /\ LET r == part_bytes(Err("transport"))
       IN  End(u, EndOf(r), r)
    /\ UNCHANGED <<images, named, resp, serverUrl>>

\* part_bytes: the stream ends;  size = bytes.len() as i32
ReadEnd(u) ==
    /\ pc[u] = "Reading"
    /\ stream' = [stream EXCEPT ![u] = "done"]
    /\ LET r == part_bytes(Ok(bytes[u]))
       IN  /\ r.kind = "Ok"
           /\ bytes' = [bytes EXCEPT ![u] = r.val]
           /\ size' = [size EXCEPT ![u] = as_i32(BytesLen(r.val))]
    /\ pc' = [pc EXCEPT ![u] = "Validating"]
    /\ UNCHANGED <<mime, height, width, filename, img, outcome, images, named,
                   resp, serverUrl>>

\* load_from_memory(&bytes)?  and  img.dimensions()
Validate(u) ==
    /\ pc[u] = "Validating"
    /\ LET r == load_from_memory(bytes[u])
       IN  IF r.kind = "Err"
           THEN /\ End(u, "Failed", r)
                /\ UNCHANGED <<stream, images, named, resp, serverUrl>>
           ELSE /\ height' = [height EXCEPT ![u] = height_width(r.val).height]
                /\ width' = [width EXCEPT ![u] = height_width(r.val).width]
                /\ pc' = [pc EXCEPT ![u] = "Naming"]
                /\ UNCHANGED <<stream, mime, bytes, size, filename, img, outcome,
                               images, named, resp, serverUrl>>

\* make_filename(size, &mime)?  with a fresh random token and the clock
Name(u) ==
    /\ pc[u] = "Naming"
    /\ \E token \in Tokens, timestamp \in Timestamps :
          LET r == make_filename(size[u], mime[u], token, timestamp)
          IN  IF r.kind = "Err"
              THEN /\ End(u, "Failed", r)
                   /\ UNCHANGED <<stream, images, named, resp, serverUrl>>
              ELSE /\ filename' = [filename EXCEPT ![u] = r.val]
                   /\ pc' = [pc EXCEPT ![u] = "ResolvingUrl"]
                   /\ UNCHANGED <<stream, mime, bytes, size, height, width, img,
                                  outcome, images, named, resp, serverUrl>>

\* create_server_url(..)?  and  Ok(Image { .. })
ResolveUrl(u) ==
    /\ pc[u] = "ResolvingUrl"
    /\ LET r == create_server_url(serverUrl, "api/v1/images/" \o filename[u])
       IN  IF r.kind = "Err"
           THEN /\ End(u, "Failed", r)
                /\ UNCHANGED <<stream, images, named, resp, serverUrl>>
           ELSE /\ img' = [img EXCEPT ![u] = Image(u, r.val)]
                /\ pc' = [pc EXCEPT ![u] = "Persisting"]
                /\ mime' = [mime EXCEPT ![u] = ""]
                /\ bytes' = [bytes EXCEPT ![u] = <<>>]
                /\ size' = [size EXCEPT ![u] = 0]
                /\ height' = [height EXCEPT ![u] = 0]
                /\ width' = [width EXCEPT ![u] = 0]
                /\ filename' = [filename EXCEPT ![u] = ""]
                /\ UNCHANGED <<stream, outcome, images, named, resp, serverUrl>>

\* save(image, owner_id)
Persist(u) ==
    /\ pc[u] = "Persisting"
    /\ LET s == save(images, img[u], OwnerOf(u))
       IN  /\ images' = s.table
           /\ End(u, IF s.res.kind = "Ok" THEN "Committed" ELSE "Failed", s.res)
    /\ UNCHANGED <<stream, named, resp, serverUrl>>

\* The caller's connection drops while the task waits for a chunk or for the
\* storage engine to take the statement: the future is dropped.
Cancel(u) ==
    /\ pc[u] \in {"Reading", "Persisting"}
    /\ End(u, "Failed", Dropped)
    /\ UNCHANGED <<stream, images, named, resp, serverUrl>>

\* Uploads handled one after the other
Quiet(u) ==
    /\ \A v \in Uploads \ {u} : pc[v] \in Terminal \cup {"Start"}
    /\ \A v \in Uploads : v < u => pc[v] \in Terminal

----------------------------------------------------------------------------
(* Lookups *)

LookupNames ==
    {format_filename(h, "png") : h \in 0..(HashSpace - 1)} \cup {"unknown.png"}

LookupIds == 0..NumUploads

Download ==
    /\ \E name \in LookupNames :
          resp' = [op |-> "download", arg |-> name, res |-> download(images, name)]
    /\ UNCHANGED <<pc, stream, locals, outcome, images, named, serverUrl>>

GetInfo ==
    /\ \E id \in LookupIds :
          resp' = [op |-> "get_info", arg |-> id, res |-> get_info(images, id)]
    /\ UNCHANGED <<pc, stream, locals, outcome, images, named, serverUrl>>

----------------------------------------------------------------------------
(* Specifications *)

\* Concurrent uploads of arbitrary parts
Next ==
    \E u \in Uploads :
        \/ Begin(u, ContentTypes)
        \/ ReadChunk(u, Chunks)
        \/ ReadFail(u)
        \/ ReadEnd(u)
        \/ Validate(u)
        \/ Name(u)
        \/ ResolveUrl(u)
        \/ Persist(u)
        \/ Cancel(u)

Spec == Init /\ [][Next]_vars

\* Uploads handled one after the other
SeqNext ==
    \E u \in Uploads :
        \/ Quiet(u) /\ Begin(u, ContentTypes)
        \/ ReadChunk(u, Chunks)
        \/ ReadFail(u)
        \/ ReadEnd(u)
        \/ Validate(u)
        \/ Name(u)
        \/ ResolveUrl(u)
        \/ Persist(u)
        \/ Cancel(u)

SpecSeq == Init /\ [][SeqNext]_vars

\* Uploads of PNG images, one after the other, with lookups at any time
StoreNext ==
    \/ \E u \in Uploads :
          \/ Quiet(u) /\ Begin(u, {"image/png"})
          \/ ReadChunk(u, {PngChunk})
          \/ ReadFail(u)
          \/ ReadEnd(u)
          \/ Validate(u)
          \/ Name(u)
          \/ ResolveUrl(u)
          \/ Persist(u)
          \/ Cancel(u)
    \/ Download
    \/ GetInfo

SpecStore == Init /\ [][StoreNext]_vars

\* make_filename called for successive uploads of the same content: the same
\* size and mime every time, a token no earlier call drew, any clock reading
NameCall ==
    /\ Len(named) < NumTokens
    /\ \E sz \in {PngChunk.len, JpegChunk.len}, m \in ContentTypes,
          token \in Tokens, timestamp \in Timestamps :
          /\ named # <<>> => sz = named[1].size /\ m = named[1].mime
          /\ \A i \in DOMAIN named : named[i].token # token
          /\ named' = Append(named,
                         [token |-> token, timestamp |-> timestamp, size |-> sz,
                          mime |-> m, res |-> make_filename(sz, m, token, timestamp)])
    /\ UNCHANGED <<pc, stream, locals, outcome, images, resp, serverUrl>>

SpecNames == Init /\ [][NameCall]_vars

----------------------------------------------------------------------------
(* Claims *)

\* C1: whenever reading a chunk of the field stream fails, part_bytes ends
\* by returning the ReadImageError error value: not a buffer, not a panic.
C1_ReadFailureReturnsReadError ==
    \A u \in Uploads : stream[u] = "error" => outcome[u] = Err("ReadImageError")

\* C2: an upload whose buffer decodes and whose declared mime is supported
\* (the server address being configured) gets through from_part, and the Image
\* returned has the codec's width as width and the codec's height as height.
C2_DecodableIngestsWithCodecDimensions ==
    [][\A u \in Uploads :
         (/\ pc[u] \in {"Validating", "Naming", "ResolvingUrl"}
          /\ pc'[u] # pc[u]
          /\ load_from_memory(bytes[u]).kind = "Ok"
          /\ mime[u] \in SupportedTypes
          /\ serverUrl # "none")
         => /\ pc'[u] \in Stages
            /\ pc'[u] = "Persisting" =>
                 /\ img'[u].width = load_from_memory(bytes[u]).val.width
                 /\ img'[u].height = load_from_memory(bytes[u]).val.height]_vars

\* C3 as claimed: an upload whose declared mime is neither image/jpeg nor
\* image/png leaves validation and naming only by failing with
\* UnsupportedImage, whether or not its bytes decode.
C3_UnsupportedMimeIsUnsupportedFormat ==
    [][\A u \in Uploads :
         (/\ pc[u] \in {"Validating", "Naming"}
          /\ mime[u] \notin SupportedTypes
          /\ pc'[u] # pc[u])
         => \/ pc[u] = "Validating" /\ pc'[u] = "Naming"
            \/ pc'[u] = "Failed" /\ outcome'[u] = Err("UnsupportedImage")]_vars

\* C3 as amended: an upload whose declared mime is neither image/jpeg nor
\* image/png, once its stream is read to the end, fails in from_part: with the
\* decode error when its bytes do not decode, and with UnsupportedImage, at
\* naming, when they do.
C3_UnsupportedMimeFailsAtItsStage ==
    [][\A u \in Uploads :
         (/\ pc[u] \in {"Validating", "Naming"}
          /\ mime[u] \notin SupportedTypes
          /\ pc'[u] # pc[u])
         => IF pc[u] = "Naming"
            THEN pc'[u] = "Failed" /\ outcome'[u] = Err("UnsupportedImage")
            ELSE IF load_from_memory(bytes[u]).kind = "Ok"
                 THEN pc'[u] = "Naming"
                 ELSE pc'[u] = "Failed" /\ outcome'[u] = Err("DecodeError")]_vars

C3_Witness ==
    \E u \in Uploads : pc[u] = "Failed" /\ outcome[u] = Err("UnsupportedImage")

NamedOk == {i \in DOMAIN named : named[i].res.kind = "Ok"}

SeedHash(call) ==
    Hash(temporal_name(call.token, call.size,
                       extension_from_mime(call.mime).val, call.timestamp))

C5_GetInfoReturnsMetadata ==
    [][(resp' # resp /\ resp'.op = "get_info")
         => LET hits == {r \in images : r.id = resp'.arg}
            IN  IF hits = {}
                THEN resp'.res = Err("RowNotFound")
                ELSE /\ resp'.res.kind = "Ok"
                     /\ "image" \notin DOMAIN resp'.res.val
                     /\ \E r \in hits : \A c \in GetInfoColumns :
                           resp'.res.val[c] = r[c]]_vars

NextStage(s) ==
    CASE s = "Reading" -> "Validating"
      [] s = "Validating" -> "Naming"
      [] s = "Naming" -> "ResolvingUrl"
      [] s = "ResolvingUrl" -> "Persisting"
      [] s = "Persisting" -> "Committed"

\* C6: a request moves from a stage only to the next stage or to Failed,
\* never moves again once it has ended, leaves the table as it is when it
\* fails, and the table changes only by the one row the insert adds as the
\* request goes from Persisting to Committed.
C6_StagesInOrderFailFast ==
    [][/\ \A u \in Uploads :
             /\ (pc[u] \in Stages /\ pc'[u] # pc[u])
                    => pc'[u] \in {NextStage(pc[u]), "Failed"}
             /\ pc[u] \in Terminal => pc'[u] = pc[u]
             /\ (pc'[u] = "Failed" /\ pc[u] # "Failed") => images' = images
       /\ images' # images
             => /\ images \subseteq images'
                /\ Cardinality(images') = Cardinality(images) + 1
                /\ \E u \in Uploads :
                      /\ pc[u] = "Persisting" /\ pc'[u] = "Committed"
                      /\ \A v \in Uploads \ {u} : pc'[v] = pc[v]]_vars

\* C7: of concurrently processed valid uploads, every one that reaches the
\* insert is committed, each committed record carries the dimensions, size,
\* mime and owner of its own upload, and two committed records differ in id
\* and in filename.
C7_ConcurrentUploadsKeepTheirOwn ==
    /\ \A u \in Uploads : outcome[u] # Err("PersistenceError")
    /\ \A u \in Uploads :
          pc[u] = "Committed"
              => LET r == outcome[u].val
                     d == load_from_memory(r.image)
                 IN  /\ d.kind = "Ok"
                     /\ r.width = d.val.width /\ r.height = d.val.height
                     /\ r.size = BytesLen(r.image)
                     /\ r.mime \in SupportedTypes
                     /\ \E row \in images :
                           row.id = r.id /\ row.owner_id = OwnerOf(u)
    /\ \A u, v \in Uploads :
          (u # v /\ pc[u] = "Committed" /\ pc[v] = "Committed")
              => /\ outcome[u].val.id # outcome[v].val.id
                 /\ outcome[u].val.filename # outcome[v].val.filename

SavedAs(name) ==
    {u \in Uploads : pc[u] = "Committed" /\ outcome[u].val.filename = name}

C9_SizeIsByteLength ==
    /\ \A u \in Uploads :
          pc[u] \in {"Validating", "Naming", "ResolvingUrl"}
              => size[u] = BytesLen(bytes[u])
    /\ \A u \in Uploads :
          pc[u] = "Persisting" => img[u].size = BytesLen(img[u].image)
    /\ \A u \in Uploads :
          pc[u] = "Committed" => outcome[u].val.size = BytesLen(outcome[u].val.image)
    /\ \A r \in images : r.size = BytesLen(r.image)

C9_Witness ==
    \E r \in images : r.size = MAX_FILE_SIZE /\ Len(r.image) = 1

\* C10: the Image a successful from_part returns has width > 0 and
\* height > 0.
C10_DimensionsPositive ==
    \A u \in Uploads :
        pc[u] = "Persisting" => img[u].width > 0 /\ img[u].height > 0

====
